---- MODULE Spec2Model ----
(***************************************************************************)
(* A model of the store factory (createStore: getState, subscribe,         *)
(* dispatch) and of the reducers todos, goals and app that the repository  *)
(* runs in it.                                                             *)
(*                                                                         *)
(* JavaScript values are modelled as follows.  `undefined` is the record   *)
(* Undefined.  A todo is [id, name, complete], a goal is [id, name], an    *)
(* action is a record with a `type` field and its payload.  An array is a  *)
(* sequence.  A value that may be an array or undefined (a parameter with  *)
(* a default) is passed boxed: Box(seq) or Undefined.  A function that may *)
(* raise returns TypeError in place of its result.                         *)
(***************************************************************************)
EXTENDS Integers, Sequences, FiniteSets, TLC

\* ---------------------------------------------------------------- bounds
MaxCalls == 4       \* calls made on one store in one run

Ids == {0, 1}       \* entity identifiers
Listeners == {1, 2} \* distinct listener functions

\* ---------------------------------------------------------------- values
Undefined == [undefined |-> TRUE]
TypeError == [error |-> "TypeError"]
Box(v) == [v |-> v]
IsError(r) == r = TypeError

\* Action type constants.
ADD_TODO == "ADD_TODO"
REMOVE_TODO == "REMOVE_TODO"
TOGGLE_TODO == "TOGGLE_TODO"
ADD_GOAL == "ADD_GOAL"
REMOVE_GOAL == "REMOVE_GOAL"

\* Action creators.
addTodoAction(todo) == [type |-> ADD_TODO, todo |-> todo]
removeTodoAction(id) == [type |-> REMOVE_TODO, id |-> id]
toggleTodoAction(id) == [type |-> TOGGLE_TODO, id |-> id]
addGoalAction(goal) == [type |-> ADD_GOAL, goal |-> goal]
removeGoalAction(id) == [type |-> REMOVE_GOAL, id |-> id]

\* The inputs a caller may hand to dispatch: every action the creators build
\* from the entities below (a creator called without its argument carries
\* undefined), an action of a type no reducer knows, and no action at all.
Todos == [id : Ids, name : {"Walk the dog"}, complete : BOOLEAN]
Goals == [id : Ids, name : {"Learn Redux"}]
UnknownAction == [type |-> "PING"]
Actions ==
    {addTodoAction(t) : t \in Todos \cup {Undefined}}
    \cup {removeTodoAction(i) : i \in Ids}
    \cup {toggleTodoAction(i) : i \in Ids}
    \cup {addGoalAction(g) : g \in Goals \cup {Undefined}}
    \cup {removeGoalAction(i) : i \in Ids}
    \cup {UnknownAction, Undefined}

\* ---------------------------------------------------------------- arrays
\* Variant: the filter predicate written `x.id === id`.
FilterIdEq(s, id) ==
    IF \E i \in 1..Len(s) : s[i] = Undefined
    THEN TypeError
    ELSE Box(SelectSeq(s, LAMBDA x : x.id = id))

\* Array.prototype.filter with the predicate `x.id !== id`; reading .id of
\* an undefined element raises.
FilterIdNot(s, id) ==
    IF \E i \in 1..Len(s) : s[i] = Undefined
    THEN TypeError
    ELSE Box(SelectSeq(s, LAMBDA x : x.id # id))

\* Variant: the copy is marked complete instead of inverted.
ToggleSetsComplete(todo) == [todo EXCEPT !.complete = TRUE]

\* Object.assign({}, todo, { complete: !todo.complete })
ToggleComplete(todo) == [todo EXCEPT !.complete = ~todo.complete]

\* Variant: the map condition written `todo.id === id ? todo : toggled copy`.
MapToggleOthers(s, id) ==
    IF \E i \in 1..Len(s) : s[i] = Undefined
    THEN TypeError
    ELSE Box([i \in 1..Len(s) |->
                 IF s[i].id = id THEN s[i] ELSE ToggleComplete(s[i])])

\* Array.prototype.map with `todo.id !== id ? todo : toggled copy`.
MapToggle(s, id) ==
    IF \E i \in 1..Len(s) : s[i] = Undefined
    THEN TypeError
    ELSE Box([i \in 1..Len(s) |->
                 IF s[i].id # id THEN s[i] ELSE ToggleComplete(s[i])])

\* ---------------------------------------------------------------- reducers
\* Variant: ADD_TODO skips a todo whose id is already in the slice.
todosSkipsDuplicate(state, action) ==
    LET s == IF state = Undefined THEN <<>> ELSE state.v IN
    IF action = Undefined THEN TypeError
    ELSE IF action.type = ADD_TODO
         THEN IF /\ action.todo # Undefined
                 /\ \E i \in 1..Len(s) :
                        s[i] # Undefined /\ s[i].id = action.todo.id
              THEN Box(s)
              ELSE Box(s \o <<action.todo>>)
    ELSE IF action.type = REMOVE_TODO THEN FilterIdNot(s, action.id)
    ELSE IF action.type = TOGGLE_TODO THEN MapToggle(s, action.id)
    ELSE Box(s)

\* Variant: the default branch returns a fresh empty array.
todosDefaultResets(state, action) ==
    LET s == IF state = Undefined THEN <<>> ELSE state.v IN
    IF action = Undefined THEN TypeError
    ELSE IF action.type = ADD_TODO THEN Box(s \o <<action.todo>>)
    ELSE IF action.type = REMOVE_TODO THEN FilterIdNot(s, action.id)
    ELSE IF action.type = TOGGLE_TODO THEN MapToggle(s, action.id)
    ELSE Box(<<>>)

\* function todos(state = [], action)
todos(state, action) ==
    LET s == IF state = Undefined THEN <<>> ELSE state.v IN
    IF action = Undefined THEN TypeError
    ELSE IF action.type = ADD_TODO THEN Box(s \o <<action.todo>>)
    ELSE IF action.type = REMOVE_TODO THEN FilterIdNot(s, action.id)
    ELSE IF action.type = TOGGLE_TODO THEN MapToggle(s, action.id)
    ELSE Box(s)

\* function goals(state = [], action)
goals(state, action) ==
    LET s == IF state = Undefined THEN <<>> ELSE state.v IN
    IF action = Undefined THEN TypeError
    ELSE IF action.type = ADD_GOAL THEN Box(s \o <<action.goal>>)
    ELSE IF action.type = REMOVE_GOAL THEN FilterIdNot(s, action.id)
    ELSE Box(s)

\* Property access obj[key] on an object: undefined when the key is absent.
Prop(obj, key) ==
    IF key \in DOMAIN obj THEN Box(obj[key]) ELSE Undefined

\* Variant: the goals reducer is handed the todos slice.
appCrossed(state, action) ==
    LET st == IF state = Undefined THEN [x \in {} |-> 0] ELSE state
        t == todos(Prop(st, "todos"), action)
        g == goals(Prop(st, "todos"), action)
    IN  IF IsError(t) THEN t
        ELSE IF IsError(g) THEN g
        ELSE [todos |-> t.v, goals |-> g.v]

\* function app(state = {}, action): todos is evaluated before goals, and a
\* raise in either leaves no object built.
app(state, action) ==
    LET st == IF state = Undefined THEN [x \in {} |-> 0] ELSE state
        t == todos(Prop(st, "todos"), action)
        g == goals(Prop(st, "goals"), action)
    IN  IF IsError(t) THEN t
        ELSE IF IsError(g) THEN g
        ELSE [todos |-> t.v, goals |-> g.v]

\* ---------------------------------------------------------------- objects
\* The reducers once more, on object identities.  The heap h is the sequence
\* of objects allocated so far and Ref(n) the reference to its n-th object: an
\* array is [items], a todo or goal [fields], a state object [todos, goals]
\* holding the references of its two slices.  Each operator returns the heap
\* it leaves and the reference (or TypeError) it returns; objects that no
\* reference reaches afterwards (temporaries) are not allocated.
MaxObserved == 3    \* dispatch calls in one run that tracks objects
MaxTwoCalls == 3    \* calls in one run of two stores
MaxChecked == 3     \* calls in one run that goes through the interceptor
MaxFetched == 2     \* items a fetch returns
MaxPassCalls == 4   \* calls in one run whose listeners call the store

Ref(n) == [ref |-> n]

\* Variant: the payload is pushed onto the slice's own array.
hPush(h, arr, item) ==
    [heap |-> [h EXCEPT ![arr.ref].items = Append(@, item)], ret |-> arr]

\* state.concat([ item ]): a new array.
hConcat(h, arr, item) ==
    [heap |-> Append(h, [items |-> Append(h[arr.ref].items, item)]),
     ret |-> Ref(Len(h) + 1)]

\* state.filter((x) => x.id !== id): a new array of the same entity objects.
hFilter(h, arr, id) ==
    LET items == h[arr.ref].items IN
    IF \E i \in 1..Len(items) : items[i] = Undefined
    THEN [heap |-> h, ret |-> TypeError]
    ELSE [heap |-> Append(h, [items |-> SelectSeq(items,
                                  LAMBDA x : h[x.ref].fields.id # id)]),
          ret |-> Ref(Len(h) + 1)]

\* The callback of state.map over the items left: a matching todo is replaced
\* by a new object (Object.assign({}, todo, ...)), any other is returned itself.
RECURSIVE hMapItems(_, _, _, _)
hMapItems(h, items, id, acc) ==
    IF items = <<>> THEN [heap |-> h, items |-> acc]
    ELSE IF h[Head(items).ref].fields.id # id
    THEN hMapItems(h, Tail(items), id, Append(acc, Head(items)))
    ELSE hMapItems(
             Append(h, [fields |-> ToggleComplete(h[Head(items).ref].fields)]),
             Tail(items), id, Append(acc, Ref(Len(h) + 1)))

\* state.map(...): a new array.
hMap(h, arr, id) ==
    LET items == h[arr.ref].items IN
    IF \E i \in 1..Len(items) : items[i] = Undefined
    THEN [heap |-> h, ret |-> TypeError]
    ELSE LET m == hMapItems(h, items, id, <<>>) IN
         [heap |-> Append(m.heap, [items |-> m.items]),
          ret |-> Ref(Len(m.heap) + 1)]

\* The default parameter `state = []`: a new empty array when state is undefined.
hDefaultArray(h, slice) ==
    IF slice = Undefined
    THEN [heap |-> Append(h, [items |-> <<>>]), ret |-> Ref(Len(h) + 1)]
    ELSE [heap |-> h, ret |-> slice]

\* function todos(state = [], action); payload is the reference action.todo.
hTodos(h, slice, action, payload) ==
    LET d == hDefaultArray(h, slice) IN
    IF action = Undefined THEN [heap |-> h, ret |-> TypeError]
    ELSE IF action.type = ADD_TODO THEN hConcat(d.heap, d.ret, payload)
    ELSE IF action.type = REMOVE_TODO THEN hFilter(d.heap, d.ret, action.id)
    ELSE IF action.type = TOGGLE_TODO THEN hMap(d.heap, d.ret, action.id)
    ELSE d

\* function goals(state = [], action); payload is the reference action.goal.
hGoals(h, slice, action, payload) ==
    LET d == hDefaultArray(h, slice) IN
    IF action = Undefined THEN [heap |-> h, ret |-> TypeError]
    ELSE IF action.type = ADD_GOAL THEN hConcat(d.heap, d.ret, payload)
    ELSE IF action.type = REMOVE_GOAL THEN hFilter(d.heap, d.ret, action.id)
    ELSE d

\* function app(state = {}, action): the slices of the state object (undefined
\* for the default {}) go to the slice reducers and a new object is returned.
hApp(h, st, action, payload) ==
    LET t == hTodos(h, IF st = Undefined THEN Undefined ELSE h[st.ref].todos,
                    action, payload)
        g == hGoals(t.heap, IF st = Undefined THEN Undefined ELSE h[st.ref].goals,
                    action, payload)
    IN  IF IsError(t.ret) THEN [heap |-> h, ret |-> TypeError]
        ELSE IF IsError(g.ret) THEN [heap |-> h, ret |-> TypeError]
        ELSE [heap |-> Append(g.heap, [todos |-> t.ret, goals |-> g.ret]),
              ret |-> Ref(Len(g.heap) + 1)]

\* The object literal the caller hands to an action creator, if any.
PayloadOf(action) ==
    IF action = Undefined THEN Undefined
    ELSE IF action.type = ADD_TODO THEN action.todo
    ELSE IF action.type = ADD_GOAL THEN action.goal
    ELSE Undefined

\* The content of the array at arr: the fields of its entities, in order.
DeepArray(h, arr) ==
    [i \in 1..Len(h[arr.ref].items) |->
        IF h[arr.ref].items[i] = Undefined THEN Undefined
        ELSE h[h[arr.ref].items[i].ref].fields]

\* The content of the state value at st.
DeepState(h, st) ==
    IF st = Undefined THEN Undefined
    ELSE [todos |-> DeepArray(h, h[st.ref].todos),
          goals |-> DeepArray(h, h[st.ref].goals)]

\* ---------------------------------------------------------------- store
\* Variant: a factory that runs the reducer once on construction.
createStoreInitialised ==
    [state |-> app(Undefined, UnknownAction), listeners |-> <<>>]

\* function createStore(reducer): `let state` (unset) and `let listeners = []`.
createStore == [state |-> Undefined, listeners |-> <<>>]

\* const getState = () => state
getState(st) == st

\* Variant: a listener already registered is not pushed again.
subscribeOnce(ls, listener) ==
    IF \E i \in 1..Len(ls) : ls[i] = listener THEN ls
    ELSE Append(ls, listener)

\* listeners.push(listener)
subscribe(ls, listener) == Append(ls, listener)

\* The closure subscribe returns: listeners.filter((l) => l !== listener)
unsubscribe(ls, listener) == SelectSeq(ls, LAMBDA l : l # listener)

\* Variant: the listeners are visited last to first.
RECURSIVE forEachReversed(_)
forEachReversed(ls) ==
    IF ls = <<>> THEN <<>>
    ELSE forEachReversed(Tail(ls)) \o <<Head(ls)>>

\* listeners.forEach((listener) => listener()): the listeners invoked, in the
\* order of their invocation.
RECURSIVE forEach(_)
forEach(ls) ==
    IF ls = <<>> THEN <<>> ELSE <<Head(ls)>> \o forEach(Tail(ls))

\* Variant: the reducer is handed an unset state instead of the current one.
dispatchForgetsState(st, ls, action) ==
    LET r == app(Undefined, action) IN
    IF IsError(r)
    THEN [state |-> st, calls |-> <<>>, ret |-> Undefined, threw |-> TRUE]
    ELSE [state |-> r, calls |-> forEach(ls), ret |-> Undefined,
          threw |-> FALSE]

\* Variant: the listeners are notified in a `finally`, also after a raise.
dispatchNotifiesOnThrow(st, ls, action) ==
    LET r == app(st, action) IN
    IF IsError(r)
    THEN [state |-> st, calls |-> forEach(ls), ret |-> Undefined,
          threw |-> TRUE]
    ELSE [state |-> r, calls |-> forEach(ls), ret |-> Undefined,
          threw |-> FALSE]

\* const dispatch = (action) => { state = reducer(state, action);
\* listeners.forEach(...) } with reducer = app.  A raise in the reducer leaves
\* the assignment undone and the forEach unreached; the function has no return
\* statement.
dispatch(st, ls, action) ==
    LET r == app(st, action) IN
    IF IsError(r)
    THEN [state |-> st, calls |-> <<>>, ret |-> Undefined, threw |-> TRUE]
    ELSE [state |-> r, calls |-> forEach(ls), ret |-> Undefined,
          threw |-> FALSE]

\* ---------------------------------------------------------------- state
VARIABLES
    state,      \* createStore's `state`
    listeners,  \* createStore's `listeners`
    regs,       \* history: for each entry of listeners, the number of the
                \* subscribe call that pushed it
    handles,    \* the unsubscribe closures returned so far: the listener each
                \* captured, the subscribe call it came from, its invocations
    history,    \* history: the actions handed to dispatch, and whether the
                \* reducer raised
    last,       \* history: the last call made on the store and its outcome
    heap,       \* the objects allocated so far; an address is an index
    sref,       \* where `state` points in the heap, or undefined
    held,       \* the references getState() has returned so far
    stores,     \* two stores side by side: the `state` and `listeners` of
                \* the scope each createStore call made
    twoHandles, \* the unsubscribe closures of the two stores: store, listener
    twoLast,    \* history: the last call on either store and its outcome
    arrays,     \* the listener arrays allocated so far; an address is an index
    lref,       \* where `listeners` points in arrays
    stack,      \* the dispatch calls in progress, innermost last: the array
                \* its forEach walks, the length read at its start, the index
                \* it is at, whether the listener at that index is running
    seen,       \* history: the listener invocations and what each observed
    born,       \* history: per subscribe call, the dispatch calls begun before
    shared,     \* what importing actions/shared.js gave
    thunk       \* a run of the thunk: what the fetches gave, what it dispatched

storeVars == <<state, listeners, regs, handles, history, last>>
heapVars == <<heap, sref, held>>
twoVars == <<stores, twoHandles, twoLast>>
passVars == <<arrays, lref, stack, seen, born>>
thunkVars == <<shared, thunk>>
vars == <<storeVars, heapVars, twoVars, passVars, thunkVars>>

NoCall == [op |-> "createStore", action |-> Undefined, listener |-> 0,
           handle |-> 0, ret |-> Undefined, threw |-> FALSE,
           calls |-> <<>>, removed |-> <<>>]

\* The registrations a filter on `listener` keeps (parallel to unsubscribe).
RECURSIVE KeepRegs(_, _, _)
KeepRegs(ls, rs, listener) ==
    IF ls = <<>> THEN <<>>
    ELSE (IF Head(ls) # listener THEN <<Head(rs)>> ELSE <<>>)
         \o KeepRegs(Tail(ls), Tail(rs), listener)

RECURSIVE SumCalls(_)
SumCalls(hs) == IF hs = <<>> THEN 0 ELSE Head(hs).calls + SumCalls(Tail(hs))

\* The calls made on the store so far: subscribe, unsubscribe and dispatch.
NumCalls == Len(handles) + SumCalls(handles) + Len(history)

\* No run of the thunk yet.
NoRun == [called |-> FALSE, threw |-> FALSE, first |-> 0,
          todos |-> Undefined, goals |-> Undefined, dispatched |-> <<>>]

\* Variant: `state` and `listeners` are declared once, outside createStore.
ScopeOfModule(s) == 1

\* `let state` and `let listeners` are declared in createStore's body: every
\* call makes its own pair, which the functions it returns close over.
Scope(s) == s

\* const store = createStore(app), twice.
Stores == {1, 2}

\* The calls made on the two stores so far.
NumTwoCalls == twoLast.handle.calls

Init ==
    /\ state = createStore.state
    /\ listeners = createStore.listeners
    /\ regs = <<>>
    /\ handles = <<>>
    /\ history = <<>>
    /\ last = NoCall
    /\ heap = <<>>
    /\ sref = createStore.state
    /\ held = {}
    /\ stores = [e \in {Scope(s) : s \in Stores} |-> createStore]
    /\ twoHandles = <<>>
    /\ twoLast = [NoCall EXCEPT !.handle = [store |-> 0, calls |-> 0]]
    /\ arrays = <<createStore.listeners>>
    /\ lref = 1
    /\ stack = <<>>
    /\ seen = <<>>
    /\ born = <<>>
    /\ shared = "unloaded"
    /\ thunk = NoRun

\* store.subscribe(l)
Subscribe(l) ==
    /\ NumCalls < MaxCalls
    /\ listeners' = subscribe(listeners, l)
    /\ regs' = Append(regs, Len(handles) + 1)
    /\ handles' = Append(handles,
                         [listener |-> l, reg |-> Len(handles) + 1, calls |-> 0])
    /\ last' = [NoCall EXCEPT !.op = "subscribe", !.listener = l,
                              !.ret = [handle |-> Len(handles) + 1]]
    /\ UNCHANGED <<state, history>>

\* Invoking the h-th unsubscribe closure.
Unsubscribe(h) ==
    /\ NumCalls < MaxCalls
    /\ listeners' = unsubscribe(listeners, handles[h].listener)
    /\ regs' = KeepRegs(listeners, regs, handles[h].listener)
    /\ handles' = [handles EXCEPT ![h].calls = @ + 1]
    /\ last' = [NoCall EXCEPT !.op = "unsubscribe", !.handle = h,
                   !.removed = SelectSeq(regs,
                       LAMBDA r : \A i \in 1..Len(regs') : regs'[i] # r)]
    /\ UNCHANGED <<state, history>>

\* store.dispatch(a)
Dispatch(a) ==
    /\ NumCalls < MaxCalls
    /\ LET d == dispatch(state, listeners, a) IN
        /\ state' = d.state
        /\ history' = Append(history, [action |-> a, threw |-> d.threw])
        /\ last' = [NoCall EXCEPT !.op = "dispatch", !.action = a,
                       !.ret = d.ret, !.threw = d.threw, !.calls = d.calls]
    /\ UNCHANGED <<listeners, regs, handles>>

\* What store.dispatch(a) and a following getState() do to the objects: the
\* caller's object literal is allocated first; the reducer's result is
\* assigned to `state` unless it raised.
DispatchObjects(a) ==
    LET p == PayloadOf(a)
        h0 == IF p = Undefined THEN heap ELSE Append(heap, [fields |-> p])
        r == hApp(h0, sref, a, IF p = Undefined THEN p ELSE Ref(Len(h0)))
    IN  /\ heap' = r.heap
        /\ sref' = IF IsError(r.ret) THEN sref ELSE r.ret
        /\ held' = held \cup ({sref'} \ {Undefined})

\* store.dispatch(a) on object identities, followed by a getState() of the
\* caller.
ObservedDispatch(a) ==
    /\ Len(history) < MaxObserved
    /\ Dispatch(a)
    /\ DispatchObjects(a)
    /\ UNCHANGED <<twoVars, passVars, thunkVars>>

Next ==
    \/ \E l \in Listeners : Subscribe(l) /\ UNCHANGED <<heapVars, twoVars, passVars, thunkVars>>
    \/ \E h \in 1..Len(handles) : Unsubscribe(h) /\ UNCHANGED <<heapVars, twoVars, passVars, thunkVars>>
    \/ \E a \in Actions : Dispatch(a) /\ UNCHANGED <<heapVars, twoVars, passVars, thunkVars>>

Spec == Init /\ [][Next]_vars

NextObserved == \E a \in Actions : ObservedDispatch(a)

SpecObserved == Init /\ [][NextObserved]_vars

\* A call on one of two stores: what the call was and what it invoked.
TwoCall(s, op, l, a, calls, threw) ==
    [NoCall EXCEPT !.op = op, !.listener = l, !.action = a, !.calls = calls,
                   !.threw = threw,
                   !.handle = [store |-> s, calls |-> NumTwoCalls + 1]]

\* stores[s].subscribe(l)
TwoSubscribe(s, l) ==
    /\ NumTwoCalls < MaxTwoCalls
    /\ stores' = [stores EXCEPT ![Scope(s)].listeners = subscribe(@, l)]
    /\ twoHandles' = Append(twoHandles, [store |-> s, listener |-> l])
    /\ twoLast' = TwoCall(s, "subscribe", l, Undefined, <<>>, FALSE)
    /\ UNCHANGED <<storeVars, heapVars, passVars, thunkVars>>

\* Invoking the h-th unsubscribe closure; it belongs to the store whose
\* subscribe returned it.
TwoUnsubscribe(h) ==
    /\ NumTwoCalls < MaxTwoCalls
    /\ stores' = [stores EXCEPT ![Scope(twoHandles[h].store)].listeners =
                      unsubscribe(@, twoHandles[h].listener)]
    /\ twoLast' = TwoCall(twoHandles[h].store, "unsubscribe",
                          twoHandles[h].listener, Undefined, <<>>, FALSE)
    /\ UNCHANGED <<twoHandles, storeVars, heapVars, passVars, thunkVars>>

\* stores[s].dispatch(a)
TwoDispatch(s, a) ==
    /\ NumTwoCalls < MaxTwoCalls
    /\ LET d == dispatch(stores[Scope(s)].state, stores[Scope(s)].listeners, a)
       IN  /\ stores' = [stores EXCEPT ![Scope(s)].state = d.state]
           /\ twoLast' = TwoCall(s, "dispatch", 0, a, d.calls, d.threw)
    /\ UNCHANGED <<twoHandles, storeVars, heapVars, passVars, thunkVars>>

NextTwo ==
    \/ \E s \in Stores, l \in Listeners : TwoSubscribe(s, l)
    \/ \E h \in 1..Len(twoHandles) : TwoUnsubscribe(h)
    \/ \E s \in Stores, a \in Actions : TwoDispatch(s, a)

SpecTwo == Init /\ [][NextTwo]_vars

\* ---------------------------------------------------------------- passes
\* dispatch step by step, with listeners that call the store themselves.
\* `listeners` is a reference: push alters the array it points at, filter
\* makes a new array and points `listeners` at it.  The variables listeners
\* and regs keep the content of that array.

\* The actions dispatched in these runs.
PassActions ==
    {addTodoAction([id |-> 0, name |-> "Walk the dog", complete |-> FALSE]),
     toggleTodoAction(0), UnknownAction, Undefined}

Top == stack[Len(stack)]

\* Control is in the caller's code: outside every dispatch, or in the body of
\* the listener the innermost forEach has invoked.
InUserCode == IF stack = <<>> THEN TRUE ELSE Top.running

\* store.subscribe(l), from outside or from a listener.
PassSubscribe(l) ==
    /\ NumCalls < MaxPassCalls
    /\ InUserCode
    /\ listeners' = subscribe(listeners, l)
    /\ regs' = Append(regs, Len(handles) + 1)
    /\ arrays' = [arrays EXCEPT ![lref] =
                      Append(@, [fn |-> l, reg |-> Len(handles) + 1])]
    /\ handles' = Append(handles,
                         [listener |-> l, reg |-> Len(handles) + 1, calls |-> 0])
    /\ born' = Append(born, Len(history))
    /\ last' = [NoCall EXCEPT !.op = "subscribe", !.listener = l,
                              !.ret = [handle |-> Len(handles) + 1]]
    /\ UNCHANGED <<state, history, lref, stack, seen, heapVars, twoVars, thunkVars>>

\* Invoking the h-th unsubscribe closure, from outside or from a listener.
PassUnsubscribe(h) ==
    /\ NumCalls < MaxPassCalls
    /\ InUserCode
    /\ listeners' = unsubscribe(listeners, handles[h].listener)
    /\ regs' = KeepRegs(listeners, regs, handles[h].listener)
    /\ arrays' = Append(arrays, SelectSeq(arrays[lref],
                            LAMBDA e : e.fn # handles[h].listener))
    /\ lref' = Len(arrays) + 1
    /\ handles' = [handles EXCEPT ![h].calls = @ + 1]
    /\ last' = [NoCall EXCEPT !.op = "unsubscribe", !.handle = h]
    /\ UNCHANGED <<state, history, stack, seen, born, heapVars, twoVars, thunkVars>>

\* Variant: the return of a dispatch ends the passes around it as well.
PopAll(stk) == <<>>

\* The return of the innermost dispatch: control is back in its caller.
Pop(stk) == SubSeq(stk, 1, Len(stk) - 1)

\* Variant: the loop reads the length of the array before every iteration.
PassLengthLive(f) == Len(arrays[f.arr])

\* forEach reads the length of the array once, before the first callback.
PassLength(f) == f.len

\* Variant: forEach catches what a listener raises and goes on with the next.
Isolate(stk, depth) ==
    [stk EXCEPT ![Len(stk)].running = FALSE, ![Len(stk)].k = @ + 1]

\* An error raised in a listener's body leaves the forEach and the dispatch
\* around it, and every listener and dispatch further out up to the listener
\* that catches it: the calls 1..depth stay in progress (none, if no listener
\* catches it).
Propagate(stk, depth) == SubSeq(stk, 1, depth)

\* The history, with each dispatch that an error left marked by the index of
\* the listener its forEach was at.
Aborted(hist, stk, depth) ==
    [n \in 1..Len(hist) |->
        IF \E j \in (depth + 1)..Len(stk) : stk[j].pass = n
        THEN [hist[n] EXCEPT !.aborted =
                 stk[CHOOSE j \in (depth + 1)..Len(stk) : stk[j].pass = n].k]
        ELSE hist[n]]

\* store.dispatch(a), from outside or from a listener: the reducer runs and
\* `state` is assigned, then forEach starts on the array `listeners` points
\* at.  A raise of the reducer leaves the call at once; it is caught by one
\* of the listeners in progress (which goes on) or by none.
PassDispatch(a) ==
    /\ NumCalls < MaxPassCalls
    /\ InUserCode
    /\ LET d == dispatch(state, listeners, a)
           h == Append(history, [action |-> a, threw |-> d.threw,
                                 n |-> Len(d.calls), aborted |-> 0])
       IN
        /\ state' = d.state
        /\ last' = [NoCall EXCEPT !.op = "dispatch", !.action = a,
                                  !.threw = d.threw]
        /\ IF d.threw
           THEN \E depth \in 0..Len(stack) :
                    /\ stack' = Propagate(stack, depth)
                    /\ history' = Aborted(h, stack, depth)
           ELSE /\ history' = h
                /\ stack' = Append(stack,
                    [arr |-> lref, len |-> Len(arrays[lref]), k |-> 1,
                     running |-> FALSE, pass |-> Len(history) + 1,
                     snap |-> d.calls, snapRegs |-> regs, done |-> <<>>,
                     prior |-> state, priorRef |-> sref])
    /\ DispatchObjects(a)
    /\ UNCHANGED <<listeners, regs, handles, arrays, lref, seen, born, twoVars, thunkVars>>

\* forEach calls the callback on the next element: listener().
Invoke ==
    /\ stack # <<>>
    /\ ~Top.running
    /\ Top.k <= PassLength(Top)
    /\ LET e == arrays[Top.arr][Top.k] IN
        /\ stack' = [stack EXCEPT ![Len(stack)].running = TRUE,
                                  ![Len(stack)].done = Append(@, e)]
        /\ seen' = Append(seen,
                     [reg |-> e.reg, fn |-> e.fn, pass |-> Top.pass,
                      at |-> Len(history), state |-> getState(state),
                      ref |-> sref, prior |-> Top.prior,
                      priorRef |-> Top.priorRef])
        /\ last' = [NoCall EXCEPT !.op = "listener", !.listener = e.fn]
    /\ UNCHANGED <<state, listeners, regs, handles, history, arrays, lref,
                   born, heapVars, twoVars, thunkVars>>

\* The listener returns: forEach moves on.
Return ==
    /\ stack # <<>>
    /\ Top.running
    /\ stack' = [stack EXCEPT ![Len(stack)].running = FALSE,
                              ![Len(stack)].k = @ + 1]
    /\ last' = [NoCall EXCEPT !.op = "return"]
    /\ UNCHANGED <<state, listeners, regs, handles, history, arrays, lref,
                   seen, born, heapVars, twoVars, thunkVars>>

\* The listener raises: the error leaves its dispatch, and is caught by a
\* listener further out that is in the middle of a nested dispatch, or by none.
Raise ==
    /\ stack # <<>>
    /\ Top.running
    /\ \E depth \in 0..(Len(stack) - 1) :
          /\ stack' = Propagate(stack, depth)
          /\ history' = Aborted(history, stack, depth)
    /\ last' = [NoCall EXCEPT !.op = "raise", !.threw = TRUE,
                   !.listener = arrays[Top.arr][Top.k].fn]
    /\ UNCHANGED <<state, listeners, regs, handles, arrays, lref,
                   seen, born, heapVars, twoVars, thunkVars>>

\* forEach is through: dispatch returns (nothing).
EndPass ==
    /\ stack # <<>>
    /\ ~Top.running
    /\ Top.k > PassLength(Top)
    /\ stack' = Pop(stack)
    /\ last' = [NoCall EXCEPT !.op = "end", !.ret = Undefined,
                   !.action = history[Top.pass].action,
                   !.calls = [i \in 1..Len(Top.done) |-> Top.done[i].fn]]
    /\ UNCHANGED <<state, listeners, regs, handles, history, arrays, lref,
                   seen, born, heapVars, twoVars, thunkVars>>

NextPass ==
    \/ \E l \in Listeners : PassSubscribe(l)
    \/ \E h \in 1..Len(handles) : PassUnsubscribe(h)
    \/ \E a \in PassActions : PassDispatch(a)
    \/ Invoke
    \/ Return
    \/ Raise
    \/ EndPass

SpecPass == Init /\ [][NextPass]_vars

\* ---------------------------------------------------------------- interceptor
\* checkAndDispatch(store, action).  A name is the sequence of its characters.
Uppers == <<"A", "B", "C", "D", "E", "F", "G", "H", "I", "J", "K", "L", "M",
            "N", "O", "P", "Q", "R", "S", "T", "U", "V", "W", "X", "Y", "Z">>
Lowers == <<"a", "b", "c", "d", "e", "f", "g", "h", "i", "j", "k", "l", "m",
            "n", "o", "p", "q", "r", "s", "t", "u", "v", "w", "x", "y", "z">>

\* Variant: the name is compared as it is written.
keepCase(cs) == cs

\* String.prototype.toLowerCase
toLowerCase(cs) ==
    [i \in 1..Len(cs) |->
        IF \E u \in 1..Len(Uppers) : Uppers[u] = cs[i]
        THEN Lowers[CHOOSE u \in 1..Len(Uppers) : Uppers[u] = cs[i]]
        ELSE cs[i]]

\* String.prototype.includes
includes(cs, pat) ==
    \E i \in 0..(Len(cs) - Len(pat)) : SubSeq(cs, i + 1, i + Len(pat)) = pat

bitcoin == <<"b", "i", "t", "c", "o", "i", "n">>

\* The names the caller types.
Names ==
    {bitcoin,
     <<"B", "u", "y", " ", "B", "i", "t", "C", "o", "i", "n">>,
     <<"B", "I", "T", "C", "O", "I", "N", "S">>,
     <<"b", "i", "t", " ", "c", "o", "i", "n">>,
     <<"W", "a", "l", "k">>}

\* The actions handed to checkAndDispatch: adds of named entities, adds
\* without a payload, the other actions, and no action.
CheckedActions ==
    {addTodoAction([id |-> 0, name |-> n, complete |-> FALSE]) : n \in Names}
    \cup {addGoalAction([id |-> 0, name |-> n]) : n \in Names}
    \cup {addTodoAction(Undefined), addGoalAction(Undefined),
          removeTodoAction(0), toggleTodoAction(0), UnknownAction, Undefined}

\* function checkAndDispatch(store, action): what it leaves of the store,
\* the listeners invoked, whether it raised, how often it called
\* store.dispatch and whether it called alert.  Reading action.type of no
\* action, or .name of no payload, raises a TypeError.
checkAndDispatch(st, ls, action) ==
    LET stop(threw, alerted) ==
            [state |-> st, calls |-> <<>>, ret |-> Undefined, threw |-> threw,
             dispatched |-> 0, alerted |-> alerted]
    IN
    IF action = Undefined THEN stop(TRUE, FALSE)
    ELSE IF action.type = ADD_TODO /\ action.todo = Undefined
    THEN stop(TRUE, FALSE)
    ELSE IF action.type = ADD_TODO
            /\ includes(toLowerCase(action.todo.name), bitcoin)
    THEN stop(FALSE, TRUE)
    ELSE IF action.type = ADD_GOAL /\ action.goal = Undefined
    THEN stop(TRUE, FALSE)
    ELSE IF action.type = ADD_GOAL
            /\ includes(toLowerCase(action.goal.name), bitcoin)
    THEN stop(FALSE, TRUE)
    ELSE LET d == dispatch(st, ls, action) IN
         [state |-> d.state, calls |-> d.calls, ret |-> d.ret,
          threw |-> d.threw, dispatched |-> 1, alerted |-> FALSE]

\* checkAndDispatch(store, a)
CheckAndDispatch(a) ==
    /\ NumCalls < MaxChecked
    /\ LET c == checkAndDispatch(state, listeners, a) IN
        /\ state' = c.state
        /\ history' = IF c.dispatched = 1
                      THEN Append(history, [action |-> a, threw |-> c.threw])
                      ELSE history
        /\ last' = [NoCall EXCEPT !.op = "checkAndDispatch", !.action = a,
                       !.ret = c.ret, !.threw = c.threw, !.calls = c.calls,
                       !.handle = IF c.alerted THEN 1 ELSE 0]
    /\ UNCHANGED <<listeners, regs, handles, heapVars, twoVars, passVars, thunkVars>>

\* store.subscribe(l), in a run that goes through the interceptor.
CheckedSubscribe(l) ==
    /\ NumCalls < MaxChecked
    /\ Subscribe(l)
    /\ UNCHANGED <<heapVars, twoVars, passVars, thunkVars>>

NextChecked ==
    \/ \E l \in Listeners : CheckedSubscribe(l)
    \/ \E a \in CheckedActions : CheckAndDispatch(a)

SpecChecked == Init /\ [][NextChecked]_vars

\* ---------------------------------------------------------------- thunk
\* actions/shared.js.  Line 3 as written: onst RECIEVE_DATA = 'RECIEVE_DATA'
Line3 == <<"onst", "RECIEVE_DATA", "=", "'RECIEVE_DATA'">>

\* A statement of the form `word NAME = value` is a declaration, and parses,
\* when the word is a declaration keyword; two identifiers in a row are a
\* SyntaxError otherwise.
Parses(stmt) == stmt[1] \in {"const", "let", "var"}

\* import ... from './actions/shared': a module with a statement that does
\* not parse is not evaluated, and the import raises the SyntaxError.
importShared == IF Parses(Line3) THEN "loaded" ELSE "SyntaxError"

RECIEVE_DATA == "RECIEVE_DATA"

\* function receiveData (todos, goals)
receiveData(ts, gs) == [type |-> RECIEVE_DATA, todos |-> ts, goals |-> gs]

\* What a fetch of the API gives: a failure, or a list of items.
Rejected == [rejected |-> TRUE]
Lists(S) == UNION {[1..n -> S] : n \in 0..MaxFetched}
FetchedTodos == {Rejected} \cup {Box(l) : l \in Lists(Todos)}
FetchedGoals == {Rejected} \cup {Box(l) : l \in Lists(Goals)}

\* Promise.all([...]).then(([todos, goals]) => ...): the callback runs once
\* both promises are fulfilled, with their values in the order of the
\* array; it does not run when one is rejected.
PromiseAllThen(ft, fg) ==
    IF ft = Rejected \/ fg = Rejected THEN <<>>
    ELSE <<receiveData(ft.v, fg.v)>>

\* handleInitialData()(dispatch): the actions handed to dispatch.  When the
\* module did not load there is no handleInitialData to call.
handleInitialData(module, ft, fg) ==
    IF module = "loaded"
    THEN [threw |-> FALSE, dispatched |-> PromiseAllThen(ft, fg)]
    ELSE [threw |-> TRUE, dispatched |-> <<>>]

\* The application imports the module.
ImportShared ==
    /\ shared = "unloaded"
    /\ shared' = importShared
    /\ UNCHANGED <<thunk, storeVars, heapVars, twoVars, passVars>>

\* The application runs handleInitialData()(dispatch); the API settles the
\* two fetches with ft and fg, the fetch numbered `first` before the other.
RunInitialData(ft, fg, first) ==
    /\ shared # "unloaded"
    /\ ~thunk.called
    /\ LET r == handleInitialData(shared, ft, fg) IN
        thunk' = [called |-> TRUE, threw |-> r.threw, first |-> first,
                  todos |-> ft, goals |-> fg, dispatched |-> r.dispatched]
    /\ UNCHANGED <<shared, storeVars, heapVars, twoVars, passVars>>

NextThunk ==
    \/ ImportShared
    \/ \E ft \in FetchedTodos, fg \in FetchedGoals, first \in {1, 2} :
           RunInitialData(ft, fg, first)

SpecThunk == Init /\ [][NextThunk]_vars

\* ---------------------------------------------------------------- claims
\* The actions handed to dispatch so far, in order.
Dispatched == [i \in 1..Len(history) |-> history[i].action]

\* The left fold of the reducer app over a sequence of actions; a raise ends it.
RECURSIVE Fold(_, _)
Fold(st, acts) ==
    IF acts = <<>> \/ IsError(st) THEN st
    ELSE Fold(app(st, Head(acts)), Tail(acts))

\* How often x occurs in the sequence s.
Count(s, x) == Cardinality({i \in 1..Len(s) : s[i] = x})

EmptyState == [todos |-> <<>>, goals |-> <<>>]

\* C1: when no reducer call raised, getState() after the k-th dispatch is the
\* left fold of the reducer over the store's initial (unset) state and the k
\* actions dispatched, whatever subscribe and unsubscribe calls came between.
C1_StateIsFold ==
    ~IsError(Fold(createStore.state, Dispatched))
        => getState(state) = Fold(createStore.state, Dispatched)

C1_Witness ==
    /\ Len(history) >= 3
    /\ ~IsError(Fold(createStore.state, Dispatched))
    /\ Len(handles) >= 1
    /\ state.todos # <<>>
    /\ state.goals # <<>>

\* C2 as claimed: before any dispatch getState() is the reducer's initial
\* value, for app { todos: [], goals: [] }.
C2_InitialStateIsReducerInit ==
    history = <<>> => getState(state) = EmptyState

\* C2 amended: until a dispatch has succeeded getState() is undefined (the
\* factory does not run the reducer); the reducer's initial value appears with
\* the first dispatch: a first action of unknown type yields
\* { todos: [], goals: [] }.
C2_InitialStateUnset ==
    /\ (\A i \in 1..Len(history) : history[i].threw)
           => getState(state) = Undefined
    /\ (/\ last.op = "dispatch"
        /\ last.action = UnknownAction
        /\ \A i \in 1..(Len(history) - 1) : history[i].threw)
           => getState(state) = EmptyState

C2_Witness ==
    /\ history = <<>>
    /\ last.op = "unsubscribe"
    /\ listeners # <<>>

\* C3: dispatch(action) returns the very action it was passed, for every
\* action and every store state.
C3_DispatchReturnsAction ==
    (last.op = "dispatch" /\ ~last.threw) => last.ret = last.action

\* C4 as claimed: one dispatch invokes every listener in the subscriber
\* collection exactly once.
C4_EachListenerOnce ==
    (last.op = "dispatch" /\ ~last.threw)
        => \A i \in 1..Len(listeners) : Count(last.calls, listeners[i]) = 1

\* C4 amended: one dispatch whose reducer does not raise invokes the listeners
\* once per entry of the subscriber collection, in registration order (a
\* listener registered twice is invoked twice), whether or not the state
\* changed.
C4_OncePerRegistration ==
    (last.op = "dispatch" /\ ~last.threw)
        => /\ last.calls = listeners
           /\ \A i \in 1..Len(listeners) :
                  last.calls[i] = handles[regs[i]].listener
           /\ \A i, j \in 1..Len(regs) : i < j => regs[i] < regs[j]

C4_Witness ==
    /\ last.op = "dispatch"
    /\ ~last.threw
    /\ Len(listeners) = 2
    /\ listeners[1] # listeners[2]
    /\ state # Undefined

\* C5 as claimed: invoking an unsubscribe handle a second or later time
\* removes nothing from the subscriber collection.
C5_SecondUnsubscribeNoOp ==
    (last.op = "unsubscribe" /\ handles[last.handle].calls >= 2)
        => last.removed = <<>>

\* C6 as claimed: one invocation of an unsubscribe handle removes at most one
\* entry, and only the registration the handle was returned for.
C6_RemovesOwnRegistrationOnly ==
    last.op = "unsubscribe"
        => /\ Len(last.removed) <= 1
           /\ \A i \in 1..Len(last.removed) :
                  last.removed[i] = handles[last.handle].reg

\* A subscribe step appends its listener and touches nothing else.
SubscribeStep ==
    last'.op = "subscribe"
        => /\ listeners' = listeners \o <<last'.listener>>
           /\ Len(listeners') = Len(listeners) + 1
           /\ getState(state') = getState(state)
           /\ last'.calls = <<>>

\* A dispatch invokes a listener as often as it is registered.
InvokedPerEntry ==
    (last.op = "dispatch" /\ ~last.threw)
        => \A l \in Listeners : Count(last.calls, l) = Count(listeners, l)

\* C7: subscribe(listener) appends the listener at the end of the subscriber
\* collection and grows it by exactly one entry, also when the listener is
\* already registered (one dispatch then invokes it once per entry); the state
\* and the existing entries are unchanged and no listener is invoked.
C7_SubscribeAppends == [][SubscribeStep]_vars /\ []InvokedPerEntry

C7_Witness ==
    /\ last.op = "subscribe"
    /\ Len(listeners) = 3
    /\ listeners[1] = last.listener
    /\ listeners[2] # last.listener
    /\ state # Undefined

\* A dispatch whose reducer raises: the raise is that of the reducer, the
\* state is untouched and no listener runs.
FailedDispatchStep ==
    last'.op = "dispatch"
        => /\ last'.threw <=> IsError(app(state, last'.action))
           /\ last'.threw
                  => /\ getState(state') = getState(state)
                     /\ last'.calls = <<>>
                     /\ UNCHANGED <<listeners, regs, handles>>

\* C8: when the reducer raises during dispatch(action), the state after the
\* failed dispatch is the state before it (also when only one slice reducer of
\* app raises), the error reaches the caller and no listener is invoked.
C8_ReducerErrorLeavesState == [][FailedDispatchStep]_vars

C8_Witness ==
    /\ last.op = "dispatch"
    /\ last.threw
    /\ last.action # Undefined
    /\ last.action.type = REMOVE_GOAL
    /\ listeners # <<>>
    /\ state # Undefined
    /\ state.todos # <<>>

\* The value of slice k of a state; an unset state has no slices.
SliceValue(st, k) == IF st = Undefined THEN Undefined ELSE Box(st[k])

\* An action of unknown type leaves every slice value as it was.
UnknownKeepsSlices ==
    (last'.op = "dispatch" /\ last'.action = UnknownAction)
        => \A k \in {"todos", "goals"} :
               SliceValue(state', k) = SliceValue(state, k)

\* C9 as claimed: in every reachable state, the unset state before the first
\* dispatch included, an action of unknown type leaves every slice as it was.
C9_UnknownKeepsSlicesAlways == [][UnknownKeepsSlices]_vars

\* An action of unknown type does not raise, keeps the slices of a state that
\* is set, and turns the unset state into the two empty slices.
UnknownKeepsSlicesOnceSet ==
    (last'.op = "dispatch" /\ last'.action = UnknownAction)
        => /\ ~last'.threw
           /\ state # Undefined
                  => \A k \in {"todos", "goals"} :
                         SliceValue(state', k) = SliceValue(state, k)
           /\ state = Undefined => state' = EmptyState

\* C9 amended: an action of unknown type leaves every slice as it was in every
\* state reached by at least one successful dispatch; dispatched on the unset
\* state of a fresh store it sets both slices to the empty sequence.
C9_UnknownKeepsSlicesOnceSet == [][UnknownKeepsSlicesOnceSet]_vars

C9_Witness ==
    /\ last.op = "dispatch"
    /\ last.action = UnknownAction
    /\ state.todos # <<>>
    /\ state.goals # <<>>

\* Slice k of a state as its reducer sees it: an unset state has the
\* reducers' default, the empty sequence.
SliceOf(st, k) == IF st = Undefined THEN <<>> ELSE st[k]

\* The sequence s without its i-th element.
Without(s, i) == SubSeq(s, 1, i - 1) \o SubSeq(s, i + 1, Len(s))

\* Action a adds to slice k an entity with identifier id.
IsAdd(a, k, id) ==
    /\ a # Undefined
    /\ \/ k = "todos" /\ a.type = ADD_TODO /\ a.todo # Undefined
                      /\ a.todo.id = id
       \/ k = "goals" /\ a.type = ADD_GOAL /\ a.goal # Undefined
                      /\ a.goal.id = id

\* Action a removes from slice k the entities with identifier id.
IsRemove(a, k, id) ==
    /\ a # Undefined
    /\ \/ k = "todos" /\ a = removeTodoAction(id)
       \/ k = "goals" /\ a = removeGoalAction(id)

\* The last dispatch removed identifier id from slice k, the i-th dispatch
\* added an entity with that identifier to it, and no reducer call raised.
AddThenRemove(k, i, id) ==
    /\ last.op = "dispatch"
    /\ \A j \in 1..Len(history) : ~history[j].threw
    /\ i < Len(history)
    /\ IsAdd(Dispatched[i], k, id)
    /\ IsRemove(Dispatched[Len(history)], k, id)

\* Slice k is what the dispatches other than the i-th and the last yield.
AsWithoutPair(k, i) ==
    SliceOf(getState(state), k)
        = SliceOf(Fold(createStore.state,
                       Without(SubSeq(Dispatched, 1, Len(history) - 1), i)), k)

\* No other entity with identifier id is in slice k when the i-th dispatch
\* adds one, and none is added between it and the last dispatch.
OnlyOneWithId(k, i, id) ==
    /\ LET s == SliceOf(Fold(createStore.state, SubSeq(Dispatched, 1, i - 1)), k)
       IN  \A n \in 1..Len(s) : s[n].id # id
    /\ \A j \in (i + 1)..(Len(history) - 1) : ~IsAdd(Dispatched[j], k, id)

\* C10 as claimed: for every slice value and every item, add(item) followed
\* later by remove(item.id) leaves the slice as it would have been without
\* the add.
C10_RoundTripAnyItem ==
    \A k \in {"todos", "goals"} : \A i \in 1..Len(history) : \A id \in Ids :
        AddThenRemove(k, i, id) => AsWithoutPair(k, i)

\* C10 amended: add(item) followed later by remove(item.id) leaves the slice
\* as it would have been without the add, provided no other entity with
\* item.id is in the slice at the add or is added before the remove; holds
\* for the todos and the goals slice.
C10_RoundTripUniqueId ==
    \A k \in {"todos", "goals"} : \A i \in 1..Len(history) : \A id \in Ids :
        (AddThenRemove(k, i, id) /\ OnlyOneWithId(k, i, id))
            => AsWithoutPair(k, i)

C10_Witness ==
    /\ Len(history) = 4
    /\ \E k \in {"todos", "goals"} : \E id \in Ids :
           /\ AddThenRemove(k, 2, id)
           /\ OnlyOneWithId(k, 2, id)
           /\ Len(state[k]) = 2

\* The last two dispatches both toggled identifier id and no reducer call
\* raised.
ToggledTwice(id) ==
    /\ last.op = "dispatch"
    /\ Len(history) >= 2
    /\ \A j \in 1..Len(history) : ~history[j].threw
    /\ Dispatched[Len(history)] = toggleTodoAction(id)
    /\ Dispatched[Len(history) - 1] = toggleTodoAction(id)

\* The state the dispatches before the last two yield.
BeforeLastTwo == Fold(createStore.state, SubSeq(Dispatched, 1, Len(history) - 2))

\* C11: dispatching TOGGLE_TODO with the same id twice in succession restores
\* the completion flag of every matching entity and leaves every other
\* entity, the order and the length of the todos slice (and the goals slice)
\* unchanged.
C11_ToggleTwiceRestores ==
    \A id \in Ids :
        ToggledTwice(id)
            => /\ Len(state.todos) = Len(SliceOf(BeforeLastTwo, "todos"))
               /\ \A n \in 1..Len(state.todos) :
                      state.todos[n] = SliceOf(BeforeLastTwo, "todos")[n]
               /\ state.goals = SliceOf(BeforeLastTwo, "goals")

C11_Witness ==
    /\ Len(history) = 4
    /\ ToggledTwice(0)
    /\ Len(state.todos) = 2
    /\ state.todos[1].id = 0
    /\ state.todos[2].id = 1

\* A successful dispatch assembles the state from the two slice reducers, each
\* applied to its own slice; the actions of one slice leave the other alone.
AppStep ==
    (last'.op = "dispatch" /\ ~last'.threw)
        => /\ DOMAIN state' = {"todos", "goals"}
           /\ Box(state'.todos) = todos(SliceValue(state, "todos"), last'.action)
           /\ Box(state'.goals) = goals(SliceValue(state, "goals"), last'.action)
           /\ last'.action.type \in {ADD_TODO, REMOVE_TODO, TOGGLE_TODO}
                  => SliceOf(state', "goals") = SliceOf(state, "goals")
           /\ last'.action.type \in {ADD_GOAL, REMOVE_GOAL}
                  => SliceOf(state', "todos") = SliceOf(state, "todos")

\* C12: after every dispatch through app the state has exactly the keys todos
\* and goals, and each slice is its own reducer applied to the prior value of
\* that slice and the action; the todo actions leave the goals slice as the
\* goals reducer reads it (unset read as empty) unchanged, and the goal
\* actions leave the todos slice unchanged.
C12_AppComposesSlices == [][AppStep]_vars

C12_Witness ==
    /\ last.op = "dispatch"
    /\ ~last.threw
    /\ last.action.type = REMOVE_TODO
    /\ state.goals # <<>>
    /\ state.todos # <<>>

\* The entities of s whose identifier differs from id, in their order.
RECURSIVE KeepOthers(_, _)
KeepOthers(s, id) ==
    IF s = <<>> THEN <<>>
    ELSE (IF Head(s).id # id THEN <<Head(s)>> ELSE <<>>)
         \o KeepOthers(Tail(s), id)

\* A successful remove on slice k keeps exactly the entities with another id.
RemoveStep(k) ==
    \A id \in Ids :
        (/\ last'.op = "dispatch"
         /\ ~last'.threw
         /\ IsRemove(last'.action, k, id))
            => /\ SliceOf(state', k) = KeepOthers(SliceOf(state, k), id)
               /\ (\A n \in 1..Len(SliceOf(state, k)) :
                       SliceOf(state, k)[n].id # id)
                      => SliceOf(state', k) = SliceOf(state, k)

\* C13: REMOVE_TODO / REMOVE_GOAL yields exactly the subsequence of entities
\* whose id differs from the action's id, in their original order; when no
\* entity matches, the slice is equal in content to the one before.
C13_RemoveKeepsOthers == [][RemoveStep("todos") /\ RemoveStep("goals")]_vars

C13_Witness ==
    /\ Len(history) = 4
    /\ \A j \in 1..3 : Dispatched[j] # Undefined /\ Dispatched[j].type = ADD_TODO
    /\ last.op = "dispatch"
    /\ ~last.threw
    /\ last.action = removeTodoAction(0)
    /\ Len(state.todos) = 2

\* A successful add appends its entity to its slice.
AddStep ==
    (last'.op = "dispatch" /\ ~last'.threw)
        => /\ last'.action.type = ADD_TODO
                 => /\ SliceOf(state', "todos")
                           = SliceOf(state, "todos") \o <<last'.action.todo>>
                    /\ Len(SliceOf(state', "todos"))
                           = Len(SliceOf(state, "todos")) + 1
           /\ last'.action.type = ADD_GOAL
                 => /\ SliceOf(state', "goals")
                           = SliceOf(state, "goals") \o <<last'.action.goal>>
                    /\ Len(SliceOf(state', "goals"))
                           = Len(SliceOf(state, "goals")) + 1

\* C14: ADD_TODO / ADD_GOAL yields the prior slice with the new entity as its
\* last element: the length grows by one, the prior entities keep their
\* positions, and an entity whose id is already present is appended too.
C14_AddAppends == [][AddStep]_vars

C14_Witness ==
    /\ last.op = "dispatch"
    /\ ~last.threw
    /\ last.action.type = ADD_TODO
    /\ Len(state.todos) = 3
    /\ state.todos[1] # Undefined
    /\ state.todos[3] # Undefined
    /\ state.todos[1].id = state.todos[3].id

\* A successful toggle inverts the flag of the matching entities only.
ToggleStep ==
    \A id \in Ids :
        (/\ last'.op = "dispatch"
         /\ ~last'.threw
         /\ last'.action = toggleTodoAction(id))
            => LET old == SliceOf(state, "todos")
                   new == SliceOf(state', "todos")
               IN  /\ Len(new) = Len(old)
                   /\ \A n \in 1..Len(old) :
                          IF old[n].id = id
                          THEN new[n] = [id |-> old[n].id, name |-> old[n].name,
                                         complete |-> ~old[n].complete]
                          ELSE new[n] = old[n]

\* C15: TOGGLE_TODO yields a todos sequence of the same length and order in
\* which every entity matching the id has its completion flag inverted and its
\* other fields kept, and every other entity is unchanged; with no match the
\* result is equal in content to the input.
C15_ToggleInvertsMatching == [][ToggleStep]_vars

C15_Witness ==
    /\ last.op = "dispatch"
    /\ ~last.threw
    /\ last.action = toggleTodoAction(1)
    /\ Len(state.todos) = 2
    /\ state.todos[1].id = 0
    /\ state.todos[2].id = 1

\* Between two states no object allocated so far is altered, the content of
\* every state value getState() has returned stays what it was, and a
\* successful dispatch points `state` at an object allocated by that dispatch.
HeapStep ==
    /\ \A n \in 1..Len(heap) : heap'[n] = heap[n]
    /\ \A r \in held : DeepState(heap', r) = DeepState(heap, r)
    /\ (last'.op = "dispatch" /\ ~last'.threw)
           => /\ sref' # sref
              /\ sref' \notin held
              /\ sref'.ref > Len(heap)

\* The objects `state` points at hold the value the reducers compute.
StateIsContent == getState(state) = DeepState(heap, sref)

\* C16: a state value previously returned by getState() is never altered by a
\* later dispatch: every dispatch installs a new state value, and all earlier
\* state values and the entity records in them keep their content.
C16_EarlierStatesKeepContent == [][HeapStep]_vars /\ []StateIsContent

C16_Witness ==
    /\ Cardinality(held) = 3
    /\ last.op = "dispatch"
    /\ last.action.type = TOGGLE_TODO
    /\ Len(state.todos) = 2
    /\ state.todos[2].complete
    /\ \E r \in held : r # sref /\ DeepState(heap, r) # DeepState(heap, sref)

\* The store a call was not made on.
OtherStore(s) == CHOOSE t \in Stores : t # s

\* The listeners subscribed through store s so far.
SubscribedTo(s) ==
    {twoHandles[h].listener :
        h \in {i \in 1..Len(twoHandles) : twoHandles[i].store = s}}

\* A call on one store leaves the other's state and listeners as they were
\* and invokes only listeners subscribed through the store it was made on.
TwoStep ==
    LET s == twoLast'.handle.store IN
    /\ getState(stores'[Scope(OtherStore(s))].state)
           = getState(stores[Scope(OtherStore(s))].state)
    /\ stores'[Scope(OtherStore(s))].listeners
           = stores[Scope(OtherStore(s))].listeners
    /\ \A i \in 1..Len(twoLast'.calls) : twoLast'.calls[i] \in SubscribedTo(s)

\* C17: two stores made by separate createStore calls with the same reducer
\* share neither state nor listeners: a dispatch, subscribe or unsubscribe on
\* one leaves the other's getState() result and listener list unchanged and
\* invokes none of the listeners subscribed to the other.
C17_StoresAreSeparate == [][TwoStep]_vars

C17_Witness ==
    /\ twoLast.op = "dispatch"
    /\ ~twoLast.threw
    /\ twoLast.calls # <<>>
    /\ stores[Scope(OtherStore(twoLast.handle.store))].listeners # <<>>
    /\ stores[Scope(OtherStore(twoLast.handle.store))].listeners
           # stores[Scope(twoLast.handle.store)].listeners
    /\ stores[Scope(OtherStore(twoLast.handle.store))].state = Undefined

\* What the i-th listener invocation observed: never the object `state`
\* pointed at before the dispatch that invoked it, and, when no other dispatch
\* began in between, the value the reducer made of the prior state.
ObservedAt(i) ==
    /\ seen[i].ref # seen[i].priorRef
    /\ seen[i].at = seen[i].pass
           => seen[i].state = app(seen[i].prior, history[seen[i].pass].action)

\* C18: within one dispatch the state is replaced before any listener runs:
\* every listener invoked by dispatch(a), with no nested dispatch, observes
\* getState() equal to reducer(priorState, a), and no listener is invoked
\* while getState() still returns the pre-dispatch state of that dispatch.
C18_StateReplacedBeforeListeners ==
    /\ \A i \in 1..Len(seen) : ObservedAt(i)
    /\ getState(state) = DeepState(heap, sref)

C18_Witness ==
    \E i \in 1..Len(seen) :
        /\ seen[i].at = seen[i].pass
        /\ seen[i].prior # Undefined
        /\ seen[i].state # seen[i].prior
        /\ i > 1
        /\ seen[i - 1].pass = seen[i].pass

\* The listeners and registrations of a sequence of array elements.
Fns(es) == [i \in 1..Len(es) |-> es[i].fn]
Regs(es) == [i \in 1..Len(es) |-> es[i].reg]

\* When a dispatch returns, the listeners its pass invoked are those that
\* were subscribed when the pass started, in that order.
EndStep ==
    last'.op = "end"
        => /\ Fns(Top.done) = Top.snap
           /\ Regs(Top.done) = Top.snapRegs

\* Changes of the collection reach the array the next forEach walks, and a
\* pass under way has invoked the first of the listeners it started with.
PassesInStep ==
    /\ listeners = Fns(arrays[lref])
    /\ regs = Regs(arrays[lref])
    /\ \A j \in 1..Len(stack) :
          /\ Len(stack[j].done) <= Len(stack[j].snap)
          /\ Fns(stack[j].done) = SubSeq(stack[j].snap, 1, Len(stack[j].done))

\* C19: the notification pass of a dispatch iterates a stable snapshot: the
\* listeners invoked are exactly those in the collection when the pass
\* starts, in that order, even if a listener subscribes or unsubscribes during
\* the pass; such changes take effect from the next dispatch on.
C19_PassIteratesSnapshot == [][EndStep]_vars /\ []PassesInStep

C19_Witness ==
    /\ last.op = "end"
    /\ Len(last.calls) = 2
    /\ Len(listeners) = 1
    /\ Len(handles) = 2
    /\ handles[2].calls = 1
    /\ last.calls[2] = handles[2].listener

\* All dispatch calls have returned: none is in progress and none raised.
AllReturned ==
    /\ stack = <<>>
    /\ history # <<>>
    /\ \A n \in 1..Len(history) : ~history[n].threw /\ history[n].aborted = 0

\* The invocations of registration r by the pass of the n-th dispatch.
InvokedBy(r, n) == {i \in 1..Len(seen) : seen[i].reg = r /\ seen[i].pass = n}

\* When a listener is invoked after later dispatch calls began (and none
\* raised), the passes of those calls are through.
NestedThrough(i) ==
    \A m \in (seen[i].pass + 1)..seen[i].at :
        (~history[m].threw /\ history[m].aborted = 0)
            => Cardinality({j \in 1..(i - 1) : seen[j].pass = m}) = history[m].n

\* C20 as stated: once all dispatch calls have returned, getState() is the
\* fold over the actions in the order their calls began and every subscribed
\* listener has been invoked once per dispatched action.
C20_EverySubscribedOncePerAction ==
    AllReturned
        => /\ getState(state) = Fold(createStore.state, Dispatched)
           /\ \A k \in 1..Len(regs) : \A n \in 1..Len(history) :
                 Cardinality(InvokedBy(regs[k], n)) = 1

\* C20: nested dispatch is permitted and loses no action: a dispatch a
\* listener makes during a pass runs to completion (state and a full pass)
\* before the outer pass resumes; once all dispatch calls have returned,
\* getState() is the fold of the reducer over all dispatched actions in the
\* order their calls began, and every subscribed listener has been invoked
\* once for each action whose dispatch began after it was subscribed.
C20_OncePerActionSinceSubscribed ==
    /\ \A i \in 1..Len(seen) : NestedThrough(i)
    /\ AllReturned
        => /\ getState(state) = Fold(createStore.state, Dispatched)
           /\ \A k \in 1..Len(regs) : \A n \in 1..Len(history) :
                 Cardinality(InvokedBy(regs[k], n))
                     = IF n > born[regs[k]] THEN 1 ELSE 0

C20_Witness ==
    /\ AllReturned
    /\ Len(history) = 2
    /\ Len(regs) = 2
    /\ born[regs[1]] = 0
    /\ born[regs[2]] = 0
    /\ Len(seen) = 4
    /\ seen[2].pass = 2
    /\ seen[4].pass = 1
    /\ seen[4].at = 2
    /\ history[1].action # history[2].action
    /\ state.todos # <<>>

\* A listener raises: the error leaves the dispatch that invoked it at once;
\* of the listeners that pass started with, those up to the raising one have
\* each been invoked once and no other; state and listeners stay as they are.
RaiseStep ==
    last'.op = "raise"
        => /\ Len(stack') < Len(stack)
           /\ \A j \in 1..Len(stack') : stack'[j] = stack[j]
           /\ Regs(Top.done) = SubSeq(Top.snapRegs, 1, Top.k)
           /\ \A r \in {Top.snapRegs[j] : j \in 1..Len(Top.snapRegs)} :
                 Cardinality(InvokedBy(r, Top.pass))
                     = Count(SubSeq(Top.snapRegs, 1, Top.k), r)
           /\ history'[Top.pass].aborted = Top.k
           /\ getState(state') = getState(state)
           /\ Len(history) = Top.pass
                  => getState(state')
                         = app(Top.prior, history[Top.pass].action)
           /\ sref' = sref
           /\ listeners' = listeners
           /\ arrays' = arrays /\ lref' = lref

\* No listener is invoked for a dispatch after an error has left it.
NoneAfterRaise ==
    \A n \in 1..Len(history) :
        history[n].aborted > 0
            => Cardinality({i \in 1..Len(seen) : seen[i].pass = n})
                   = history[n].aborted

\* C21: when a listener raises during the notification pass of dispatch(a),
\* the error propagates out of dispatch immediately, the listeners registered
\* after it are not invoked for that dispatch, the listeners before it have
\* each been invoked once, the state stays what the reducer made it (no
\* rollback) and the subscriber collection is unchanged.
C21_ListenerErrorPropagates == [][RaiseStep]_vars /\ []NoneAfterRaise

C21_Witness ==
    /\ last.op = "raise"
    /\ stack = <<>>
    /\ Len(history) = 1
    /\ history[1].aborted = 1
    /\ history[1].n = 2
    /\ Len(seen) = 1
    /\ state = app(createStore.state, history[1].action)
    /\ state.todos # <<>>

\* The name contains "bitcoin" in some mix of upper and lower case.
ContainsBitcoin(name) ==
    \E i \in 0..(Len(name) - Len(bitcoin)) :
        \A j \in 1..Len(bitcoin) :
            \E u \in 1..Len(Uppers) :
                /\ Lowers[u] = bitcoin[j]
                /\ name[i + j] \in {Lowers[u], Uppers[u]}

\* An add of a todo or goal whose name contains "bitcoin".
Blocked(a) ==
    \/ a.type = ADD_TODO /\ a.todo # Undefined /\ ContainsBitcoin(a.todo.name)
    \/ a.type = ADD_GOAL /\ a.goal # Undefined /\ ContainsBitcoin(a.goal.name)

\* An action whose add carries a payload.
HasPayload(a) ==
    /\ a # Undefined
    /\ a.type = ADD_TODO => a.todo # Undefined
    /\ a.type = ADD_GOAL => a.goal # Undefined

\* What a call of checkAndDispatch on action a did: a blocked action left
\* state and history alone and invoked no listener; any other was handed to
\* store.dispatch once.
CheckedAsStated(a) ==
    IF Blocked(a)
    THEN /\ history' = history
         /\ getState(state') = getState(state)
         /\ last'.calls = <<>>
    ELSE /\ Len(history') = Len(history) + 1
         /\ history'[Len(history')].action = a
         /\ LET d == dispatch(state, listeners, a) IN
                getState(state') = d.state /\ last'.calls = d.calls

\* C22 as stated: checkAndDispatch forwards every action but an ADD_TODO or
\* ADD_GOAL whose name contains 'bitcoin'; a blocked action leaves the state
\* alone and invokes no listener; every other action is dispatched once.
C22_ForwardsAllButBitcoin ==
    [][(last'.op = "checkAndDispatch" /\ last'.action # Undefined)
           => CheckedAsStated(last'.action)]_vars

\* C22: for an action whose add carries a named payload, checkAndDispatch
\* forwards it to store.dispatch if and only if it is not an ADD_TODO or
\* ADD_GOAL whose name contains 'bitcoin' in any case; a blocked action leaves
\* the state alone and invokes no listener, every other is dispatched exactly
\* once.  With no action, or an add without payload, it raises a TypeError
\* and dispatches nothing.
C22_ForwardsNamedButBitcoin ==
    [][last'.op = "checkAndDispatch"
           => IF HasPayload(last'.action)
              THEN CheckedAsStated(last'.action) /\ (Blocked(last'.action) => ~last'.threw)
              ELSE /\ last'.threw
                   /\ history' = history
                   /\ getState(state') = getState(state)
                   /\ last'.calls = <<>>]_vars

C22_Witness ==
    /\ last.op = "checkAndDispatch"
    /\ last.action # Undefined
    /\ last.action.type = ADD_GOAL
    /\ last.action.goal # Undefined
    /\ last.action.goal.name \notin {bitcoin}
    /\ Blocked(last.action)
    /\ listeners # <<>>
    /\ Len(history) = 1
    /\ history[1].action.type = ADD_TODO
    /\ state.todos # <<>>
    /\ state.goals = <<>>

\* C23: the thunk returned by handleInitialData dispatches exactly one
\* RECIEVE_DATA action carrying both the fetched todos and the fetched goals,
\* after both fetches have completed, in whichever order they complete; if
\* either fetch fails, no action is dispatched.
C23_OneReceiveDataAfterBoth ==
    thunk.called
        => thunk.dispatched =
               IF thunk.todos = Rejected \/ thunk.goals = Rejected THEN <<>>
               ELSE <<[type |-> RECIEVE_DATA, todos |-> thunk.todos.v,
                       goals |-> thunk.goals.v]>>

====
